---- MODULE Spec2Model ----
(***************************************************************************)
(* Model of server/services/context.py: XmlContextService.get_xml_context  *)
(* and the SAX handlers it drives.  Text is a sequence of one-character    *)
(* strings; a name (tag, attribute key, attribute value) is such a         *)
(* sequence too.  An optional value is <<>> (None) or <<v>>.               *)
(***************************************************************************)
EXTENDS Integers, Sequences, FiniteSets, TLC

\* ------------------------------------------------------------------ bounds
MaxItems == 3
MaxLine == 1
MaxChar == 14

\* -------------------------------------------------------------- characters
LT == "<"
GT == ">"
SL == "/"
SP == " "
EQ == "="
QT == "\""
NL == "\n"

Lowercase ==
    {"a", "b", "c", "d", "e", "f", "g", "h", "i", "j", "k", "l", "m",
     "n", "o", "p", "q", "r", "s", "t", "u", "v", "w", "x", "y", "z"}

Digits == {"0", "1", "2", "3", "4", "5", "6", "7", "8", "9"}

\* the class [\w.] of ATTR_KEY_VALUE_REGEX, over the characters of the model
WordOrDot == Lowercase \cup Digits \cup {"_", "."}

\* what str.strip() removes, over the characters of the model
Whitespace == {SP, NL}

None == <<>>
Some(v) == <<v>>

\* ---------------------------------------------------------- token types
UNKNOWN == "UNKNOWN"
TAG == "TAG"
ATTRIBUTE_KEY == "ATTRIBUTE_KEY"
ATTRIBUTE_VALUE == "ATTRIBUTE_VALUE"
ContextTokenType == {UNKNOWN, TAG, ATTRIBUTE_KEY, ATTRIBUTE_VALUE}

\* ------------------------------------------------------------- documents
\* names used by the documents of the model
A == <<"a">>
B == <<"b">>
K == <<"k">>
V == <<"v">>
RO == <<"r", "o">>

RECURSIVE AttrsText(_)
AttrsText(attrs) ==
    IF attrs = <<>> THEN <<>>
    ELSE <<SP>> \o attrs[1][1] \o <<EQ, QT>> \o attrs[1][2] \o <<QT>>
         \o AttrsText(Tail(attrs))

\* a piece of markup: its text and, for a tag, what the parser reports for it
StartTag(tag, attrs) ==
    [kind |-> "start", tag |-> tag, attrs |-> attrs,
     text |-> <<LT>> \o tag \o AttrsText(attrs) \o <<GT>>]
EndTag(tag) ==
    [kind |-> "end", tag |-> tag, attrs |-> <<>>,
     text |-> <<LT, SL>> \o tag \o <<GT>>]
Chars(text) ==
    [kind |-> "chars", tag |-> <<>>, attrs |-> <<>>, text |-> text]
\* a start tag the user has not finished typing: a proper prefix of its text
Unclosed(text) ==
    [kind |-> "unclosed", tag |-> <<>>, attrs |-> <<>>, text |-> text]

Items ==
    { StartTag(A, <<>>),
      StartTag(RO, <<>>),
      StartTag(A, << <<K, V>>, <<B, RO>> >>),
      EndTag(A),
      Chars(<<NL>>),
      Chars(<<"x">>),
      Unclosed(<<LT>> \o RO),
      Unclosed(<<LT>> \o B \o <<SP>> \o K \o <<EQ, QT>> \o V) }

IsBlank(item) == item.kind = "chars" /\ \A i \in 1..Len(item.text) : item.text[i] \in Whitespace

\* an unfinished tag is the last markup of its document (blank text may follow)
Documents ==
    { d \in UNION { [1..n -> Items] : n \in 0..MaxItems } :
        \A i \in 1..Len(d) :
            d[i].kind = "unclosed" => \A j \in (i+1)..Len(d) : IsBlank(d[j]) }

Positions == [line : 0..MaxLine, character : 0..MaxChar]

RECURSIVE TextOf(_, _)
TextOf(items, n) ==
    IF n = 0 THEN <<>> ELSE TextOf(items, n - 1) \o items[n].text

\* document.source
Source(d) == TextOf(d, Len(d))

\* index of the first NL of s, 0 if none
RECURSIVE FirstNL(_, _)
FirstNL(s, i) ==
    IF i > Len(s) THEN 0 ELSE IF s[i] = NL THEN i ELSE FirstNL(s, i + 1)

\* document.lines: source.splitlines(True)
RECURSIVE SplitLines(_)
SplitLines(s) ==
    IF s = <<>> THEN <<>>
    ELSE LET i == FirstNL(s, 1)
         IN IF i = 0 THEN <<s>>
            ELSE <<SubSeq(s, 1, i)>> \o SplitLines(SubSeq(s, i + 1, Len(s)))

Lines(d) == SplitLines(Source(d))

RECURSIVE LStrip(_)
LStrip(s) ==
    IF s # <<>> /\ Head(s) \in Whitespace THEN LStrip(Tail(s)) ELSE s

RECURSIVE RStrip(_)
RStrip(s) ==
    IF s # <<>> /\ s[Len(s)] \in Whitespace THEN RStrip(SubSeq(s, 1, Len(s) - 1)) ELSE s

Strip(s) == RStrip(LStrip(s))

\* mutant: only the empty string counts as empty
is_empty_document_NoLength(d) == Strip(Source(d)) = <<>>

is_empty_document(d) ==
    LET xml_content == Strip(Source(d))
    IN xml_content = <<>> \/ Len(xml_content) < 2

\* ------------------------------------------- the SAX reader (xml.sax / expat)
StartEvent(tag, attrs, line, col) ==
    [type |-> "startElement", tag |-> tag, attrs |-> attrs,
     line |-> line, col |-> col, msg |-> ""]
EndEvent(tag) ==
    [type |-> "endElement", tag |-> tag, attrs |-> <<>>,
     line |-> 0, col |-> 0, msg |-> ""]
FatalEvent(msg) ==
    [type |-> "fatalError", tag |-> <<>>, attrs |-> <<>>,
     line |-> 0, col |-> 0, msg |-> msg]

\* a fault found while feeding is reported again when the reader is closed;
\* a fault found only at the end of input is reported once
Twice(msg) == <<FatalEvent(msg), FatalEvent(msg)>>
Once(msg) == <<FatalEvent(msg)>>

RECURSIVE CountNL(_, _)
CountNL(s, n) ==
    IF n = 0 THEN 0 ELSE CountNL(s, n - 1) + (IF s[n] = NL THEN 1 ELSE 0)

RECURSIVE LastNL(_, _)
LastNL(s, n) ==
    IF n = 0 THEN 0 ELSE IF s[n] = NL THEN n ELSE LastNL(s, n - 1)

\* the locator at the first character of item i: getLineNumber() - 1, getColumnNumber()
LocatorLine(d, i) == LET before == TextOf(d, i - 1) IN CountNL(before, Len(before))
LocatorColumn(d, i) == LET before == TextOf(d, i - 1) IN Len(before) - LastNL(before, Len(before))

\* the events reader.parse(source) delivers to the two handlers, in order
\* (open: the elements open before item i; closed: the root element has ended)
RECURSIVE Feed(_, _, _, _)
Feed(d, i, open, closed) ==
    IF i > Len(d) THEN (IF closed THEN <<>> ELSE Once("no element found"))
    ELSE LET item == d[i] IN
    CASE item.kind = "start" ->
            IF closed THEN Twice("junk after document element")
            ELSE <<StartEvent(item.tag, item.attrs, LocatorLine(d, i), LocatorColumn(d, i))>>
                 \o Feed(d, i + 1, Append(open, item.tag), FALSE)
      [] item.kind = "end" ->
            IF open = <<>> THEN Twice("not well-formed (invalid token)")
            ELSE IF open[Len(open)] # item.tag THEN Twice("mismatched tag")
            ELSE <<EndEvent(item.tag)>>
                 \o Feed(d, i + 1, SubSeq(open, 1, Len(open) - 1), Len(open) = 1)
      [] item.kind = "unclosed" ->
            IF closed THEN Twice("junk after document element")
            ELSE Once("unclosed token")
      [] item.kind = "chars" ->
            IF IsBlank(item) \/ open # <<>> THEN Feed(d, i + 1, open, closed)
            ELSE IF closed THEN Twice("junk after document element")
            ELSE IF i = Len(d) THEN Once("syntax error")
            ELSE IF IsBlank(d[i + 1]) THEN Twice("syntax error")
            ELSE IF d[i + 1].kind = "chars" THEN Feed(d, i + 1, open, closed)
            ELSE Twice("not well-formed (invalid token)")

ParseEvents(d) == Feed(d, 1, <<>>, FALSE)

\* ------------------------------------------------------------- XmlContext
DefaultPosition == [line |-> 0, character |-> 0]

\* XmlContext.__init__; is_tag, is_attribute and is_attribute_value are the
\* instance attributes of those names (FALSE: never assigned on the instance)
XmlContext(document_line, position, is_empty) ==
    [document_line |-> document_line,
     target_position |-> position,
     is_empty |-> is_empty,
     token_name |-> None,
     token_type |-> UNKNOWN,
     node |-> None,
     node_stack |-> <<>>,
     is_tag |-> FALSE,
     is_attribute |-> FALSE,
     is_attribute_value |-> FALSE]

\* the outcome of a handler: the context, and whether ContextFoundException left it
Continue(context) == [context |-> context, found |-> FALSE]
ContextFound(context) == [context |-> context, found |-> TRUE]

\* ---------------------------------------------------- ContextBuilderHandler
\* the loop over attributes.items() of _build_context_from_element_line
RECURSIVE WalkAttributes(_, _, _)
WalkAttributes(context, attributes, accum) ==
    IF attributes = <<>> THEN Continue(context)
    ELSE LET attr_name == attributes[1][1]
             attr_value == attributes[1][2]
             target_offset == context.target_position.character
             attr_start == accum + 1
             attr_end == attr_start + Len(attr_name)
             is_on_attr == attr_start <= target_offset /\ target_offset <= attr_end
             attr_value_start == attr_end + 2
             attr_value_end == attr_value_start + Len(attr_value)
             is_on_attr_value ==
                 attr_value_start <= target_offset /\ target_offset <= attr_value_end
         IN IF is_on_attr
            THEN ContextFound([context EXCEPT !.is_attribute = TRUE,
                                              !.token_name = Some(attr_name)])
            ELSE IF is_on_attr_value
            THEN ContextFound([context EXCEPT !.is_attribute_value = TRUE,
                                              !.token_name = Some(attr_value)])
            ELSE WalkAttributes(context, Tail(attributes), attr_value_end)

\* mutant: a tag match records the token type and forgets the name
build_context_from_element_line_NoName(context, start_position, tag, attributes) ==
    LET target_offset == context.target_position.character
        tag_offset == start_position + Len(tag)
        is_on_tag == start_position < target_offset /\ target_offset <= tag_offset
    IN IF is_on_tag
       THEN ContextFound([context EXCEPT !.is_tag = TRUE, !.token_type = TAG])
       ELSE WalkAttributes(context, attributes, tag_offset + 1)

build_context_from_element_line(context, start_position, tag, attributes) ==
    LET target_offset == context.target_position.character
        tag_offset == start_position + Len(tag)
        is_on_tag == start_position < target_offset /\ target_offset <= tag_offset
    IN IF is_on_tag
       THEN ContextFound([context EXCEPT !.is_tag = TRUE, !.token_name = Some(tag)])
       ELSE WalkAttributes(context, attributes, tag_offset + 1)

\* mutant: the node of each element is looked up as soon as the element starts
startElement_EagerNode(context, event) ==
    LET pushed == [context EXCEPT !.node_stack = Append(@, event.tag),
                                  !.node = Some(<<"#node">> \o event.tag)]
    IN IF event.line = context.target_position.line
       THEN build_context_from_element_line(pushed, event.col, event.tag, event.attrs)
       ELSE Continue(pushed)

\* mutant: the element is examined whatever line it starts on
startElement_AnyLine(context, event) ==
    LET pushed == [context EXCEPT !.node_stack = Append(@, event.tag)]
    IN build_context_from_element_line(pushed, event.col, event.tag, event.attrs)

startElement(context, event) ==
    LET pushed == [context EXCEPT !.node_stack = Append(@, event.tag)]
    IN IF event.line = context.target_position.line
       THEN build_context_from_element_line(pushed, event.col, event.tag, event.attrs)
       ELSE Continue(pushed)

\* mutant: pop(0)
endElement_PopFirst(context, event) ==
    Continue([context EXCEPT !.node_stack = SubSeq(@, 2, Len(@))])

endElement(context, event) ==
    Continue([context EXCEPT !.node_stack = SubSeq(@, 1, Len(@) - 1)])

\* --------------------------------------------------- ContextParseErrorHandler
\* length of the longest run of characters of class cls in s from index i on
RECURSIVE RunLength(_, _, _)
RunLength(s, i, cls) ==
    IF i <= Len(s) /\ s[i] \in cls THEN 1 + RunLength(s, i + 1, cls) ELSE 0

\* re.search(START_TAG_REGEX, line): the index of the first "<" followed by a
\* lowercase letter, 0 when there is none
RECURSIVE SearchStartTag(_, _)
SearchStartTag(line, i) ==
    IF i > Len(line) THEN 0
    ELSE IF line[i] = LT /\ RunLength(line, i + 1, Lowercase) >= 1 THEN i
    ELSE SearchStartTag(line, i + 1)

try_get_tag_context_at_line_position(context, target_offset) ==
    LET line == context.document_line
        lt == SearchStartTag(line, 1)
        tag_start == lt                                    \* tag_match.start(TAG_GROUP)
        tag_end == lt + RunLength(line, lt + 1, Lowercase) \* tag_match.end(TAG_GROUP)
    IN IF lt # 0 /\ tag_start <= target_offset /\ target_offset <= tag_end
       THEN ContextFound([context EXCEPT !.is_tag = TRUE,
                                         !.token_name = Some(SubSeq(line, tag_start + 1, tag_end))])
       ELSE Continue(context)

\* ATTR_KEY_VALUE_REGEX matches at index i: a space, lowercase letters, =" 
AttrMatchesAt(line, i) ==
    LET e == i + 1 + RunLength(line, i + 1, Lowercase)
    IN /\ i <= Len(line) /\ line[i] = SP
       /\ e + 1 <= Len(line) /\ line[e] = EQ /\ line[e + 1] = QT

\* re.finditer(ATTR_KEY_VALUE_REGEX, line) from index i on, with the two tests
\* of the loop body applied to each match in turn
RECURSIVE ScanAttributes(_, _, _)
ScanAttributes(context, target_offset, i) ==
    LET line == context.document_line IN
    IF i > Len(line) THEN Continue(context)
    ELSE IF ~AttrMatchesAt(line, i) THEN ScanAttributes(context, target_offset, i + 1)
    ELSE LET key_start == i                                          \* match.start(ATTR_KEY_GROUP)
             key_end == i + RunLength(line, i + 1, Lowercase)        \* match.end(ATTR_KEY_GROUP)
             value_start == key_end + 2                              \* match.start(ATTR_VALUE_GROUP)
             value_end == value_start + RunLength(line, value_start + 1, WordOrDot)
             match_end == IF value_end + 1 <= Len(line) /\ line[value_end + 1] = QT
                          THEN value_end + 1 ELSE value_end          \* match.end()
         IN IF key_start <= target_offset /\ target_offset <= key_end
            THEN ContextFound([context EXCEPT !.is_attribute = TRUE,
                     !.token_name = Some(SubSeq(line, key_start + 1, key_end))])
            ELSE IF value_start <= target_offset /\ target_offset <= value_end
            THEN ContextFound([context EXCEPT !.is_attribute_value = TRUE,
                     !.token_name = Some(SubSeq(line, value_start + 1, value_end))])
            ELSE ScanAttributes(context, target_offset, match_end + 1)

try_get_attribute_context_at_line_position(context, target_offset) ==
    ScanAttributes(context, target_offset, 1)

try_process_context_from_unclosed_token(context) ==
    LET target_offset == context.target_position.character
        tag == try_get_tag_context_at_line_position(context, target_offset)
    IN IF tag.found THEN tag
       ELSE try_get_attribute_context_at_line_position(tag.context, target_offset)

\* mutant: a recovered token is pushed on the node stack as a started element is
fatalError_Pushes(context, event) ==
    IF event.msg = "unclosed token"
    THEN LET result == try_process_context_from_unclosed_token(context)
         IN IF result.found
            THEN ContextFound([result.context EXCEPT
                                  !.node_stack = Append(@, result.context.token_name[1])])
            ELSE result
    ELSE Continue(context)

fatalError(context, event) ==
    IF event.msg = "unclosed token"
    THEN try_process_context_from_unclosed_token(context)
    ELSE Continue(context)

\* ------------------------------------------------------------ Schema Index
\* the element names that can be on the node stack
TagNames == {A, RO}

RootNode == <<"#root">>
NodeNamed(name) == <<"#node">> \o name

\* what find_node_by_name does for a name: return its node, return None,
\* or raise (an IndexError, or any other exception)
LookupOutcomes == {"node", "None", "IndexError", "Exception"}

XsdTrees ==
    { [n \in TagNames |-> "node"],
      [n \in TagNames |-> IF n = A THEN "None" ELSE "Exception"],
      [n \in TagNames |-> IF n = A THEN "IndexError" ELSE "None"] }

\* mutant: the IndexError of an empty stack is swallowed, node is left as it was
update_node_definition_NoRoot(context, tree) ==
    IF context.node_stack = <<>>
    THEN [context |-> context, raised |-> None]
    ELSE LET last_node_in_path == context.node_stack[Len(context.node_stack)]
             outcome == tree[last_node_in_path]
         IN CASE outcome = "node" ->
                   [context |-> [context EXCEPT !.node = Some(NodeNamed(last_node_in_path))],
                    raised |-> None]
              [] outcome = "None" ->
                   [context |-> [context EXCEPT !.node = None], raised |-> None]
              [] outcome = "IndexError" ->
                   [context |-> [context EXCEPT !.node = Some(RootNode)], raised |-> None]
              [] outcome = "Exception" ->
                   [context |-> context, raised |-> Some("Exception")]

\* XmlContext.update_node_definition: the context, and the exception that leaves it
update_node_definition(context, tree) ==
    IF context.node_stack = <<>>
    THEN [context |-> [context EXCEPT !.node = Some(RootNode)], raised |-> None]
    ELSE LET last_node_in_path == context.node_stack[Len(context.node_stack)]
             outcome == tree[last_node_in_path]
         IN CASE outcome = "node" ->
                   [context |-> [context EXCEPT !.node = Some(NodeNamed(last_node_in_path))],
                    raised |-> None]
              [] outcome = "None" ->
                   [context |-> [context EXCEPT !.node = None], raised |-> None]
              [] outcome = "IndexError" ->
                   [context |-> [context EXCEPT !.node = Some(RootNode)], raised |-> None]
              [] outcome = "Exception" ->
                   [context |-> context, raised |-> Some("Exception")]

\* ------------------------------------------------------ XmlContextService
\* no XmlContext: get_xml_context raised before one was constructed
NoContext == <<>>

\* XmlContextService.get_xml_context as a function of its inputs: the context
\* it leaves and the exception that leaves it, when nothing else runs
RECURSIVE Report(_, _)
Report(context, evs) ==
    IF evs = <<>> THEN context
    ELSE LET event == Head(evs)
             result == CASE event.type = "startElement" -> startElement(context, event)
                         [] event.type = "endElement" -> endElement(context, event)
                         [] event.type = "fatalError" -> fatalError(context, event)
         IN IF result.found THEN result.context ELSE Report(result.context, Tail(evs))

get_xml_context(d, p, tree) ==
    IF is_empty_document(d)
    THEN update_node_definition(XmlContext(<<>>, DefaultPosition, TRUE), tree)
    ELSE IF p.line >= Len(Lines(d))
    THEN [context |-> NoContext, raised |-> Some("IndexError")]
    ELSE update_node_definition(
             Report(XmlContext(Lines(d)[p.line + 1], p, FALSE), ParseEvents(d)), tree)

\* ----------------------------------------------------------- state machine
VARIABLES
    document,    \* the Document of the request (its markup; Source, Lines give the text)
    position,    \* the Position of the request
    xsd_tree,    \* XmlContextService.xsd_tree
    pc,          \* where get_xml_context is
    context,     \* the XmlContext of the request, once constructed
    events,      \* what the reader has still to report
    handled,     \* number of handler calls made by the reader
    exception,   \* the exception that reached the caller, if any
    default_position, \* the one Position() object that is the default of XmlContext.__init__
    call,        \* 1 for the first call of get_xml_context, 2 for a repeated call
    first,       \* how the first call ended, once a repeated call has begun
    node_writes, \* number of assignments to context.node made by the call
    other        \* a second request made while this one is in flight, if any

vars == <<document, position, xsd_tree, pc, context, events, handled, exception,
          default_position, call, first, node_writes, other>>

\* what no step of a call writes
kept == <<default_position, call, first, other>>

NoRequest == <<>>

Init ==
    /\ document \in Documents
    /\ position \in Positions
    /\ xsd_tree \in XsdTrees
    /\ pc = "called"
    /\ context = NoContext
    /\ events = <<>>
    /\ handled = 0
    /\ exception = None
    /\ default_position = DefaultPosition
    /\ call = 1
    /\ first = None
    /\ node_writes = 0
    /\ other = NoRequest

\* mutant: the empty context is built but parse does not return early
Parse_NoEarlyReturn ==
    /\ pc = "called"
    /\ IF position.line >= Len(Lines(document)) /\ ~is_empty_document(document)
       THEN /\ pc' = "raised"
            /\ exception' = Some("IndexError")
            /\ UNCHANGED <<context, events>>
       ELSE /\ context' = IF is_empty_document(document)
                          THEN XmlContext(<<>>, default_position, TRUE)
                          ELSE XmlContext(Lines(document)[position.line + 1], position, FALSE)
            /\ events' = ParseEvents(document)
            /\ pc' = "parsing"
            /\ UNCHANGED exception
    /\ UNCHANGED <<document, position, xsd_tree, handled, kept, node_writes>>

\* mutant: node_stack is one list shared by every XmlContext (a mutable default),
\* so a repeated call starts with what the first call left on it
Parse_SharedStack ==
    /\ pc = "called"
    /\ LET left == IF first = None THEN <<>> ELSE first[1].context.node_stack
       IN IF is_empty_document(document)
          THEN /\ context' = [XmlContext(<<>>, default_position, TRUE) EXCEPT !.node_stack = left]
               /\ pc' = "parsed"
               /\ UNCHANGED <<events, exception>>
          ELSE IF position.line >= Len(Lines(document))
          THEN /\ pc' = "raised"
               /\ exception' = Some("IndexError")
               /\ UNCHANGED <<context, events>>
          ELSE /\ context' = [XmlContext(Lines(document)[position.line + 1], position, FALSE)
                                 EXCEPT !.node_stack = left]
               /\ events' = ParseEvents(document)
               /\ pc' = "parsing"
               /\ UNCHANGED exception
    /\ UNCHANGED <<document, position, xsd_tree, handled, kept, node_writes>>

\* XmlContextParser.parse up to reader.parse(source)
Parse ==
    /\ pc = "called"
    /\ IF is_empty_document(document)
       THEN /\ context' = XmlContext(<<>>, default_position, TRUE)
            /\ pc' = "parsed"
            /\ UNCHANGED <<events, exception>>
       ELSE IF position.line >= Len(Lines(document))
       THEN /\ pc' = "raised"
            /\ exception' = Some("IndexError")
            /\ UNCHANGED <<context, events>>
       ELSE /\ context' = XmlContext(Lines(document)[position.line + 1], position, FALSE)
            /\ events' = ParseEvents(document)
            /\ pc' = "parsing"
            /\ UNCHANGED exception
    /\ UNCHANGED <<document, position, xsd_tree, handled, kept, node_writes>>

\* the reader is about to report an event of the given type
Reports(type) ==
    /\ pc = "parsing"
    /\ events # <<>>
    /\ Head(events).type = type

\* a handler call ends: normally, or by ContextFoundException
Handled(result) ==
    /\ context' = result.context
    /\ events' = Tail(events)
    /\ handled' = handled + 1
    /\ pc' = IF result.found THEN "found" ELSE "parsing"
    /\ UNCHANGED <<document, position, xsd_tree, exception, kept, node_writes>>

StartElement ==
    /\ Reports("startElement")
    /\ Handled(startElement(context, Head(events)))

EndElement ==
    /\ Reports("endElement")
    /\ Handled(endElement(context, Head(events)))

FatalError ==
    /\ Reports("fatalError")
    /\ Handled(fatalError(context, Head(events)))

\* reader.parse(source) returns: nothing is left to report
EndParse ==
    /\ pc = "parsing"
    /\ events = <<>>
    /\ pc' = "parsed"
    /\ UNCHANGED <<document, position, xsd_tree, context, events, handled, exception, kept, node_writes>>

\* mutant: the signal is swallowed where the handler was called and the reader goes on
CatchContextFound_Resume ==
    /\ pc = "found"
    /\ pc' = "parsing"
    /\ UNCHANGED <<document, position, xsd_tree, context, events, handled, exception, kept, node_writes>>

\* except ContextFoundException: pass
CatchContextFound ==
    /\ pc = "found"
    /\ pc' = "parsed"
    /\ UNCHANGED <<document, position, xsd_tree, context, events, handled, exception, kept, node_writes>>

\* context.update_node_definition(self.xsd_tree); return context
UpdateNodeDefinition ==
    /\ pc = "parsed"
    /\ LET result == update_node_definition(context, xsd_tree)
       IN /\ context' = result.context
          /\ exception' = result.raised
          /\ pc' = IF result.raised = None THEN "returned" ELSE "raised"
          /\ node_writes' = IF result.raised = None THEN node_writes + 1 ELSE node_writes
    /\ UNCHANGED <<document, position, xsd_tree, events, handled, kept>>

Next ==
    \/ Parse
    \/ StartElement
    \/ EndElement
    \/ FatalError
    \/ EndParse
    \/ CatchContextFound
    \/ UpdateNodeDefinition

Spec == Init /\ [][Next]_vars

\* the caller calls get_xml_context again with the same document and position:
\* a new XmlContextParser, a new XmlContext; the service and the default
\* Position object are the ones of the first call
CallAgain ==
    /\ call = 1
    /\ pc \in {"returned", "raised"}
    /\ first' = Some([pc |-> pc, exception |-> exception, context |-> context])
    /\ call' = 2
    /\ pc' = "called"
    /\ context' = NoContext
    /\ events' = <<>>
    /\ handled' = 0
    /\ exception' = None
    /\ node_writes' = 0
    /\ UNCHANGED <<document, position, xsd_tree, default_position, other>>

NextTwice ==
    \/ Next
    \/ CallAgain

SpecTwice == Init /\ [][NextTwice]_vars

\* ------------------------------------------------------- two requests at once
\* the first request of a pair: a document of at most two pieces of markup
PairDocuments == { d \in Documents : Len(d) <= 2 }

\* the second request of a pair: an unclosed tag inside an open element, an
\* empty document, and a document parsed to its end without a token
OtherRequests ==
    { [document |-> <<StartTag(A, <<>>), Chars(<<NL>>), Unclosed(<<LT>> \o RO)>>,
       position |-> [line |-> 1, character |-> 1]],
      [document |-> <<Chars(<<NL>>)>>,
       position |-> [line |-> 1, character |-> 1]],
      [document |-> <<StartTag(A, << <<K, V>>, <<B, RO>> >>), EndTag(A)>>,
       position |-> [line |-> 0, character |-> 14]] }

\* a request as get_xml_context is entered
NewRequest(d, p) ==
    [document |-> d, position |-> p, pc |-> "called", context |-> NoContext,
     events |-> <<>>, handled |-> 0, exception |-> None, overlapped |-> FALSE]

InitPair ==
    /\ document \in PairDocuments
    /\ position \in Positions
    /\ xsd_tree \in XsdTrees
    /\ pc = "called"
    /\ context = NoContext
    /\ events = <<>>
    /\ handled = 0
    /\ exception = None
    /\ default_position = DefaultPosition
    /\ call = 1
    /\ first = None
    /\ node_writes = 0
    /\ other \in { NewRequest(r.document, r.position) : r \in OtherRequests }

\* what no step of the second request writes: the state of the first request,
\* the Schema Index and the default Position
others == <<document, position, xsd_tree, pc, context, events, handled, exception,
            default_position, call, first, node_writes>>

\* the first request is between its call and its return
InFlight == pc \in {"parsing", "found", "parsed"}

\* the second request takes a step to the state next
OtherStep(next) ==
    /\ other' = [next EXCEPT !.overlapped = @ \/ InFlight]
    /\ UNCHANGED others

OtherParse ==
    /\ other.pc = "called"
    /\ OtherStep(
          IF is_empty_document(other.document)
          THEN [other EXCEPT !.context = XmlContext(<<>>, default_position, TRUE),
                             !.pc = "parsed"]
          ELSE IF other.position.line >= Len(Lines(other.document))
          THEN [other EXCEPT !.pc = "raised", !.exception = Some("IndexError")]
          ELSE [other EXCEPT
                   !.context = XmlContext(Lines(other.document)[other.position.line + 1],
                                          other.position, FALSE),
                   !.events = ParseEvents(other.document),
                   !.pc = "parsing"])

OtherReports(type) ==
    /\ other.pc = "parsing"
    /\ other.events # <<>>
    /\ Head(other.events).type = type

OtherHandled(result) ==
    OtherStep([other EXCEPT !.context = result.context,
                            !.events = Tail(@),
                            !.handled = @ + 1,
                            !.pc = IF result.found THEN "found" ELSE "parsing"])

\* mutant: node_stack is one list that the contexts of all requests share
OtherStartElement_SharedStack ==
    /\ OtherReports("startElement")
    /\ other' = [other EXCEPT
                    !.context = startElement(other.context, Head(other.events)).context,
                    !.events = Tail(@),
                    !.handled = @ + 1,
                    !.pc = IF startElement(other.context, Head(other.events)).found
                           THEN "found" ELSE "parsing",
                    !.overlapped = @ \/ InFlight]
    /\ context' = IF InFlight
                  THEN [context EXCEPT !.node_stack = Append(@, Head(other.events).tag)]
                  ELSE context
    /\ UNCHANGED <<document, position, xsd_tree, pc, events, handled, exception,
                   default_position, call, first, node_writes>>

OtherStartElement ==
    /\ OtherReports("startElement")
    /\ OtherHandled(startElement(other.context, Head(other.events)))

OtherEndElement ==
    /\ OtherReports("endElement")
    /\ OtherHandled(endElement(other.context, Head(other.events)))

OtherFatalError ==
    /\ OtherReports("fatalError")
    /\ OtherHandled(fatalError(other.context, Head(other.events)))

OtherEndParse ==
    /\ other.pc = "parsing"
    /\ other.events = <<>>
    /\ OtherStep([other EXCEPT !.pc = "parsed"])

OtherCatchContextFound ==
    /\ other.pc = "found"
    /\ OtherStep([other EXCEPT !.pc = "parsed"])

OtherUpdateNodeDefinition ==
    /\ other.pc = "parsed"
    /\ LET result == update_node_definition(other.context, xsd_tree)
       IN OtherStep([other EXCEPT
                        !.context = result.context,
                        !.exception = result.raised,
                        !.pc = IF result.raised = None THEN "returned" ELSE "raised"])

NextPair ==
    \/ Next
    \/ OtherParse
    \/ OtherStartElement
    \/ OtherEndElement
    \/ OtherFatalError
    \/ OtherEndParse
    \/ OtherCatchContextFound
    \/ OtherUpdateNodeDefinition

SpecPair == InitPair /\ [][NextPair]_vars


\* ================================================================= claims
\* the event whose handler ran last
LastEvent == ParseEvents(document)[handled]

\* the last handler call was startElement for an element that starts on the cursor's line
StartOnCursorLine ==
    /\ handled > 0
    /\ LastEvent.type = "startElement"
    /\ LastEvent.line = position.line

\* the tag-name span of the claims: P.character < target.character <= P.character + length(T)
InTagSpan(e) ==
    e.col < position.character /\ position.character <= e.col + Len(e.tag)

\* the spans of the k-th attribute as the claims state them
RECURSIVE AccumAt(_, _)
AccumAt(e, k) ==
    IF k = 1 THEN e.col + Len(e.tag) + 1
    ELSE AccumAt(e, k - 1) + 1 + Len(e.attrs[k - 1][1]) + 2 + Len(e.attrs[k - 1][2])
AttrStart(e, k) == AccumAt(e, k) + 1
AttrEnd(e, k) == AttrStart(e, k) + Len(e.attrs[k][1])
ValueStart(e, k) == AttrEnd(e, k) + 2
ValueEnd(e, k) == ValueStart(e, k) + Len(e.attrs[k][2])
InKeySpan(e, k) ==
    AttrStart(e, k) <= position.character /\ position.character <= AttrEnd(e, k)
InValueSpan(e, k) ==
    ValueStart(e, k) <= position.character /\ position.character <= ValueEnd(e, k)

\* C1: get_xml_context never raises to its caller, whatever the document,
\* the position and the Schema Index are
C1_NeverRaises == pc # "raised" /\ exception = None

\* C2: when the start event of tag T is on the cursor's line and the cursor is
\* in (P.character, P.character + length(T)], the returned context has
\* token_type TAG and token_name T
C2_TagResolved ==
    (pc = "returned" /\ StartOnCursorLine /\ InTagSpan(LastEvent))
        => /\ context.token_type = TAG
           /\ context.token_name = Some(LastEvent.tag)

\* C3: when the tag span does not match and the cursor is in the key span
\* [attrStart, attrEnd] of an attribute, the returned context has token_type
\* ATTRIBUTE_KEY and token_name that attribute's name
C3_AttributeKeyResolved ==
    (pc = "returned" /\ StartOnCursorLine /\ ~InTagSpan(LastEvent))
        => \A k \in 1..Len(LastEvent.attrs) :
              InKeySpan(LastEvent, k)
                  => /\ context.token_type = ATTRIBUTE_KEY
                     /\ context.token_name = Some(LastEvent.attrs[k][1])

\* C4: when neither the tag span nor the key span matches and the cursor is in
\* the value span [valueStart, valueEnd] of an attribute, the returned context
\* has token_type ATTRIBUTE_VALUE and token_name that attribute's value
C4_AttributeValueResolved ==
    (pc = "returned" /\ StartOnCursorLine /\ ~InTagSpan(LastEvent))
        => \A k \in 1..Len(LastEvent.attrs) :
              (InValueSpan(LastEvent, k) /\ ~InKeySpan(LastEvent, k))
                  => /\ context.token_type = ATTRIBUTE_VALUE
                     /\ context.token_name = Some(LastEvent.attrs[k][2])

\* the first "<name" of the cursor's line has the cursor within the name's span
CursorOnFirstTagOfLine ==
    LET line == context.document_line
        lt == SearchStartTag(line, 1)
    IN /\ lt # 0
       /\ lt <= position.character
       /\ position.character <= lt + RunLength(line, lt + 1, Lowercase)

FirstTagOfLine ==
    LET line == context.document_line
        lt == SearchStartTag(line, 1)
    IN SubSeq(line, lt + 1, lt + RunLength(line, lt + 1, Lowercase))

\* C5: when the parse ends with the fault "unclosed token" and the cursor is
\* within the name of the first "<name" of its line, the returned context has
\* token_type TAG and token_name that name
C5_UnclosedTagRecovered ==
    (/\ pc = "returned"
     /\ handled > 0
     /\ LastEvent.type = "fatalError"
     /\ LastEvent.msg = "unclosed token"
     /\ CursorOnFirstTagOfLine)
        => /\ context.token_type = TAG
           /\ context.token_name = Some(FirstTagOfLine)

\* the request has constructed its context
HasContext ==
    pc \in {"parsing", "found", "parsed", "returned"} \/ exception = Some("Exception")

\* number of events of the given type among evs[i..j]
Count(evs, type, i, j) == Cardinality({k \in i..j : evs[k].type = type})

\* the element started by evs[i] has not ended within evs[1..h]
StillOpen(evs, i, h) ==
    /\ evs[i].type = "startElement"
    /\ \A j \in i..h :
          Count(evs, "startElement", i, j) - Count(evs, "endElement", i, j) >= 1

\* the names of the elements opened and not yet closed by evs[1..h], outermost first
RECURSIVE OpenNames(_, _, _)
OpenNames(evs, h, i) ==
    IF i > h THEN <<>>
    ELSE (IF StillOpen(evs, i, h) THEN <<evs[i].tag>> ELSE <<>>) \o OpenNames(evs, h, i + 1)

\* C6: node_stack is always the names of the elements opened and not yet
\* closed, root first, duplicates kept; when startElement resolves a token the
\* stack ends with the element of that event
C6_AncestorStack ==
    HasContext =>
        /\ context.node_stack = OpenNames(ParseEvents(document), handled, 1)
        /\ (pc = "found" /\ LastEvent.type = "startElement")
              => /\ context.node_stack # <<>>
                 /\ context.node_stack[Len(context.node_stack)] = LastEvent.tag

\* C6 witness: a token resolved in the third of three nested elements, the outer two of one name
C6_Witness ==
    /\ pc = "found"
    /\ LastEvent.type = "startElement"
    /\ context.node_stack = <<A, A, RO>>

\* C7: a document whose stripped text has fewer than 2 characters gives, for
\* every position, a context with is_empty, token_type UNKNOWN and no token_name
C7_EmptyDocument ==
    (Len(Strip(Source(document))) < 2 /\ pc # "called")
        => /\ pc \in {"parsed", "returned"}
           /\ context.is_empty
           /\ context.token_type = UNKNOWN
           /\ context.token_name = None

\* C7 witness: one character between blanks, the cursor on a line the text does not have
C7_Witness ==
    /\ pc = "returned"
    /\ context.is_empty
    /\ Len(Strip(Source(document))) = 1
    /\ Len(Source(document)) > 1
    /\ position.line >= Len(Lines(document))

\* C8 as stated: the context returned for an empty document has every other
\* field at its default, node (the schema node) included, and no event was handled
C8_EmptyContextAllDefaults ==
    (pc = "returned" /\ context.is_empty)
        => /\ context.document_line = <<>>
           /\ context.token_name = None
           /\ context.token_type = UNKNOWN
           /\ context.node_stack = <<>>
           /\ context.node = None
           /\ handled = 0

\* C8 amended: the context returned for an empty document has document_line,
\* token_name, token_type and node_stack at their defaults, no event was
\* handled, and node is the root of the XSD tree
C8_EmptyContextRootNode ==
    (pc = "returned" /\ context.is_empty)
        => /\ context.document_line = <<>>
           /\ context.token_name = None
           /\ context.token_type = UNKNOWN
           /\ context.node_stack = <<>>
           /\ context.node = Some(RootNode)
           /\ handled = 0

\* C8 witness: an empty document that has text, asked about a position other than the default one
C8_Witness ==
    /\ pc = "returned"
    /\ context.is_empty
    /\ Source(document) # <<>>
    /\ position # DefaultPosition
    /\ context.node = Some(RootNode)

\* C9: with a non-empty final node_stack, node is what the lookup of the
\* innermost name returns, and the root of the XSD tree when that lookup
\* fails or returns nothing
C9_LookupOrRoot ==
    ((pc = "returned" \/ exception = Some("Exception")) /\ context.node_stack # <<>>)
        => /\ pc = "returned"
           /\ LET last == context.node_stack[Len(context.node_stack)]
              IN context.node = IF xsd_tree[last] = "node"
                                THEN Some(NodeNamed(last))
                                ELSE Some(RootNode)

\* C10: when node_stack is empty as update_node_definition runs, the context
\* is returned with node the root of the XSD tree
C10_EmptyStackRoot ==
    ((pc = "returned" \/ exception = Some("Exception")) /\ context.node_stack = <<>>)
        => /\ pc = "returned"
           /\ context.node = Some(RootNode)

\* C10 witness: a parsed document whose elements have all ended
C10_Witness ==
    /\ pc = "returned"
    /\ ~context.is_empty
    /\ handled >= 2
    /\ LastEvent.type = "endElement"
    /\ context.node_stack = <<>>
    /\ context.node = Some(RootNode)

\* C11: a repeated call with the same document and position ends as the first
\* call did, and a context it returns equals the first one field by field;
\* the default Position shared by empty contexts is never written
C11_Idempotent ==
    /\ default_position = DefaultPosition
    /\ (call = 2 /\ pc \in {"returned", "raised"})
          => /\ pc = first[1].pc
             /\ exception = first[1].exception
             /\ pc = "returned"
                   => /\ context.document_line = first[1].context.document_line
                      /\ context.target_position = first[1].context.target_position
                      /\ context.is_empty = first[1].context.is_empty
                      /\ context.token_name = first[1].context.token_name
                      /\ context.token_type = first[1].context.token_type
                      /\ context.node_stack = first[1].context.node_stack
                      /\ context.node = first[1].context.node

\* C11 witness: the repeated call returned after resolving a token inside an open element
C11_Witness ==
    /\ call = 2
    /\ pc = "returned"
    /\ context.token_name # None
    /\ context.node_stack # <<>>
    /\ first[1].context.token_name = context.token_name

OtherFaultLast ==
    /\ handled > 0
    /\ LastEvent.type = "fatalError"
    /\ LastEvent.msg # "unclosed token"

\* C13: a call whose parse ended with a fault other than "unclosed token"
\* returns a context with token_type UNKNOWN, no token_name and the node_stack
\* the element events before the fault left; nothing is raised to the caller
C13_OtherFaultReturned ==
    (OtherFaultLast /\ pc \notin {"parsing", "parsed"})
        => /\ pc = "returned"
           /\ exception = None
           /\ context.token_type = UNKNOWN
           /\ context.token_name = None
           /\ context.node_stack = OpenNames(ParseEvents(document), handled, 1)

\* the fields the handlers write
TokenFields(c) == <<c.token_name, c.token_type, c.node_stack>>

\* C14: node is None and unwritten while the call parses and recovers; it is
\* written once, by the time the context is returned and never twice; the
\* step that writes it, and every later step of the call, leaves token_name,
\* token_type and node_stack as they are
C14_NodeWrittenOnceAfterParsing ==
    /\ [](/\ pc \in {"parsing", "found", "parsed"}
               => (context.node = None /\ node_writes = 0)
          /\ pc = "called" => node_writes = 0
          /\ pc = "returned" => node_writes = 1
          /\ node_writes <= 1)
    /\ [][(HasContext /\ (node_writes' # node_writes \/ node_writes >= 1)
                      /\ pc' # "called")
              => TokenFields(context') = TokenFields(context)]_vars

\* C14 witness: a returned context with a resolved token whose node the lookup found
C14_Witness ==
    /\ pc = "returned"
    /\ node_writes = 1
    /\ context.token_name # None
    /\ context.node_stack # <<>>
    /\ context.node = Some(NodeNamed(context.node_stack[Len(context.node_stack)]))

\* C15: the step after ContextFoundException is raised is its catch in parse,
\* which reports no event and changes neither the context nor what reached
\* the caller; from then on no event is handled and node_stack and token_name
\* stay as they were when the signal was raised
C15_NothingAfterSignal ==
    [][/\ pc = "found"
           => /\ pc' = "parsed"
              /\ exception' = None
              /\ handled' = handled
              /\ events' = events
              /\ context' = context
       /\ (pc = "parsed" /\ pc' # "called")
           => /\ handled' = handled
              /\ events' = events
              /\ context'.node_stack = context.node_stack
              /\ context'.token_name = context.token_name]_vars

\* C15 witness: a context returned after startElement raised the signal, with
\* element events of the document never reported
C15_Witness ==
    /\ pc = "returned"
    /\ context.is_tag
    /\ LastEvent.type = "startElement"
    /\ events # <<>>
    /\ Head(events).type \in {"startElement", "endElement"}

\* C17: when startElement is called for an element that starts on another line
\* than the cursor's, the context after the call is the context before it with
\* the tag appended to node_stack (token_name, token_type, document_line,
\* target_position and everything else as before), ContextFoundException is
\* not raised, and the request's position is untouched
C17_OtherLineOnlyPushes ==
    [][(Reports("startElement") /\ Head(events).line # position.line)
          => /\ context' = [context EXCEPT !.node_stack = Append(@, Head(events).tag)]
             /\ pc' = "parsing"
             /\ position' = position]_vars

\* C17 witness: startElement has just returned for an element with attributes
\* that starts on another line, at a column where the cursor's column falls in
\* the tag span
C17_Witness ==
    /\ pc = "parsing"
    /\ handled > 0
    /\ LastEvent.type = "startElement"
    /\ LastEvent.line # position.line
    /\ LastEvent.attrs # <<>>
    /\ InTagSpan(LastEvent)
    /\ context.node_stack # <<>>
    /\ context.node_stack[Len(context.node_stack)] = LastEvent.tag
    /\ context.token_name = None

\* C18: fatalError leaves node_stack as it was when the fault was reported,
\* whatever it resolves; so a context returned after an unclosed tag was
\* recovered has the elements opened and not closed before the fault on its
\* stack, and its node is the root node when that stack is empty and the node
\* the Schema Index has for the enclosing element when it has one
C18_RecoveryKeepsStack ==
    /\ [][Reports("fatalError") => context'.node_stack = context.node_stack]_vars
    /\ []((/\ pc = "returned"
           /\ handled > 0
           /\ LastEvent.type = "fatalError"
           /\ LastEvent.msg = "unclosed token")
          => /\ context.node_stack = OpenNames(ParseEvents(document), handled - 1, 1)
             /\ context.node_stack = <<>> => context.node = Some(RootNode)
             /\ (/\ context.node_stack # <<>>
                 /\ xsd_tree[context.node_stack[Len(context.node_stack)]] = "node")
                   => context.node =
                         Some(NodeNamed(context.node_stack[Len(context.node_stack)])))

\* C18 witness: the unclosed tag ro was recovered inside the open element a,
\* and the returned node is the one of a
C18_Witness ==
    /\ pc = "returned"
    /\ handled > 0
    /\ LastEvent.type = "fatalError"
    /\ context.is_tag
    /\ context.token_name = Some(RO)
    /\ context.node_stack = <<A>>
    /\ context.node = Some(NodeNamed(A))

\* the column of the first character of the k-th attribute's name, and of its
\* value, in the line of an element written as <tag name="value" name="value">
RECURSIVE NameColumn(_, _)
NameColumn(e, k) ==
    IF k = 1 THEN e.col + 1 + Len(e.tag) + 1
    ELSE NameColumn(e, k - 1) + Len(e.attrs[k - 1][1]) + 2 + Len(e.attrs[k - 1][2]) + 2
ValueColumn(e, k) == NameColumn(e, k) + Len(e.attrs[k][1]) + 2

\* the cursor is between column and column + length, both included
CursorWithin(column, length) ==
    column <= position.character /\ position.character <= column + length

\* C19: once startElement has handled an element of the cursor's line, the
\* cursor is resolved to the k-th attribute's name exactly when it is in the
\* span that starts at the first character of that name in the line, and to
\* the k-th value exactly when it is in the span that starts at the first
\* character of that value; so for every attribute, the first as the later ones
C19_AttributeSpansAligned ==
    StartOnCursorLine =>
        \A k \in 1..Len(LastEvent.attrs) :
            LET name == LastEvent.attrs[k][1]
                value == LastEvent.attrs[k][2]
            IN /\ CursorWithin(NameColumn(LastEvent, k), Len(name))
                    <=> (context.is_attribute /\ context.token_name = Some(name))
               /\ CursorWithin(ValueColumn(LastEvent, k), Len(value))
                    <=> (context.is_attribute_value /\ context.token_name = Some(value))

\* the cursor's line cut after the name of the element of event e: what is
\* left of <T> when the tag is truncated to <T
Truncated(e) == SubSeq(Lines(document)[position.line + 1], 1, e.col + 1 + Len(e.tag))

\* C20: for the first tag of the cursor's line, startElement resolves the
\* cursor as the tag exactly when the error handler resolves it as the tag in
\* the line truncated after the tag name
C20_SameTagColumns ==
    (/\ StartOnCursorLine
     /\ SearchStartTag(Lines(document)[position.line + 1], 1) = LastEvent.col + 1)
        => LET recovered == try_get_tag_context_at_line_position(
                                XmlContext(Truncated(LastEvent), position, FALSE),
                                position.character)
           IN context.is_tag <=> recovered.found

\* C16: however the steps of two requests interleave, each request ends as
\* get_xml_context ends for its document and position when nothing else runs:
\* with the same context, or with the same exception; and no step of either
\* request changes the Schema Index, the default Position or the documents
C16_Independent ==
    /\ [](/\ pc \in {"returned", "raised"}
             => [context |-> context, raised |-> exception]
                    = get_xml_context(document, position, xsd_tree)
          /\ other.pc \in {"returned", "raised"}
             => [context |-> other.context, raised |-> other.exception]
                    = get_xml_context(other.document, other.position, xsd_tree))
    /\ [][/\ xsd_tree' = xsd_tree
          /\ default_position' = default_position
          /\ document' = document
          /\ position' = position
          /\ other'.document = other.document
          /\ other'.position = other.position]_vars

\* C16 witness: both requests have returned a resolved token with an element
\* on the stack, the second having taken steps while the first was in flight
C16_Witness ==
    /\ pc = "returned"
    /\ context.token_name # None
    /\ other.pc = "returned"
    /\ other.overlapped
    /\ other.context.token_name = Some(RO)
    /\ other.context.node_stack = <<A>>
    /\ context.node_stack # other.context.node_stack

====
